---- MODULE Spec2Model ----
(***************************************************************************)
(* pretty-sitter: a PrettySitter object renders a tree-sitter parse tree   *)
(* as indented, optionally colorized lines.  The model follows             *)
(* src/pretty_sitter/pretty_sitter.py.                                     *)
(*                                                                         *)
(* A Python str is a sequence of one-character strings.  "ESC" stands for  *)
(* the single character \033 and "U+00F0", "U+0178", ... for the non-ASCII  *)
(* characters of the trace lines.  A Python Optional value is a set with   *)
(* at most one element: None is {} and a value v is {v}.                   *)
(***************************************************************************)
EXTENDS Integers, Sequences, FiniteSets, TLC

VARIABLES
    root,           \* index in Trees of the tree handed to PrettySitter(root, ...)
    _config,        \* PrettySitter._config, the effective _CombinedConfig
    _boldworthy,    \* Colorer._boldworthy, the emphasis predicate
    frames,         \* old_worthy of every Colorer.persist block that is open
    args,           \* the fragments of the configure call, when it is the latest call
    op,             \* the latest operation
    number,         \* the number given to by_number, when it is the latest call
    styled,         \* what a brush or by_number returned, when it is the latest call
    stdout,         \* per pprint call since the latest configure: the lines written
    paged,          \* per pprint call since the latest configure: the lines given to less
    raised,         \* the exception the latest operation ended with, or NoError
    pager_lines     \* the attribute pager_lines of the function PrettySitter._print

vars == <<root, _config, _boldworthy, frames, args, op, number, styled,
          stdout, paged, raised, pager_lines>>

\* ---------------------------------------------------------------- bounds

MaxRenders == 2

MaxNesting == 2

MaxNumber == 27

\* ------------------------------------------------------- Python values

None == {}

Some(v) == {v}

Get(o) == CHOOSE v \in o : TRUE

ESC == "ESC"

Repeat(c, n) == [i \in 1..n |-> c]

DigitChars == <<"0", "1", "2", "3", "4", "5", "6", "7", "8", "9">>

RECURSIVE Str(_)
\* str(n) of a non-negative int
Str(n) == IF n < 10 THEN <<DigitChars[n + 1]>>
          ELSE Str(n \div 10) \o <<DigitChars[(n % 10) + 1]>>

RECURSIVE Join(_, _)
\* sep.join(parts)
Join(sep, parts) ==
    IF parts = <<>> THEN <<>>
    ELSE IF Len(parts) = 1 THEN parts[1]
    ELSE parts[1] \o sep \o Join(sep, Tail(parts))

RECURSIVE Replace(_, _, _)
\* s.replace(c, by) for a one-character c
Replace(s, c, by) ==
    IF s = <<>> THEN <<>>
    ELSE (IF s[1] = c THEN by ELSE <<s[1]>>) \o Replace(Tail(s), c, by)

StartsWith(s, p) == Len(s) >= Len(p) /\ SubSeq(s, 1, Len(p)) = p

\* f"{n:>3}"
RightAlign3(n) == Repeat(" ", 3 - Len(Str(n))) \o Str(n)

\* ------------------------------------------------------ style sequences

ParamChars == {"0", "1", "2", "3", "4", "5", "6", "7", "8", "9", ";"}

RECURSIVE SkipParams(_, _)
\* the first position from j on that holds no character of [0-9;]
SkipParams(s, j) ==
    IF j <= Len(s) /\ s[j] \in ParamChars THEN SkipParams(s, j + 1) ELSE j

\* the position after a match of color_regex at position i, or 0 without one
MatchColor(s, i) ==
    IF i + 1 <= Len(s) /\ s[i] = ESC /\ s[i + 1] = "["
    THEN LET j == SkipParams(s, i + 2)
         IN  IF j <= Len(s) /\ s[j] = "m" THEN j + 1 ELSE 0
    ELSE 0

\* PrettySitter._uncolor: color_regex.sub('', text).  A match begins with the
\* only ESC it holds, so no match begins inside another and the leftmost-first
\* scan of sub removes every one of them.
_uncolor(text) ==
    LET ends    == [i \in 1..Len(text) |-> MatchColor(text, i)]
        matched == UNION {i..(ends[i] - 1) : i \in {k \in 1..Len(text) : text[k] = ESC}}
        kept    == SelectSeq([k \in 1..Len(text) |-> k], LAMBDA k : k \notin matched)
    IN  [j \in 1..Len(kept) |-> text[kept[j]]]

\* ------------------------------------------------------------- Colorer

COLOR_MAP == [red |-> 91, green |-> 32, green2 |-> 92, yellow |-> 93,
              blue |-> 94, cyan |-> 96, gray |-> 37]

ConstWorthy(bold) == [kind |-> "const", value |-> bold]

\* the bound method PrettySitter._boldworthy, as Colorer(self._boldworthy) keeps it
MethodWorthy == [kind |-> "method", value |-> FALSE]

\* PrettySitter._boldworthy(node_type)
BoldworthyOfConfig(cfg, node_type) ==
    cfg.only_types # None /\ node_type \in Get(cfg.only_types)

\* self._boldworthy(text), for the predicate bw the colorer holds
CallBoldworthy(bw, cfg, text) ==
    IF bw.kind = "const" THEN bw.value ELSE BoldworthyOfConfig(cfg, text)

\* Colorer._apply(text, color, modifiers=..., bold=...)
_apply(bw, cfg, text, color, modifiers, bold) ==
    LET b    == IF bold = None THEN CallBoldworthy(bw, cfg, text) ELSE Get(bold)
        mods == IF b THEN <<1, 4>> \o modifiers \o <<color>>
                ELSE modifiers \o <<color>>
    IN  <<ESC, "[">> \o Join(<<";">>, [i \in 1..Len(mods) |-> Str(mods[i])])
            \o <<"m">> \o text \o <<ESC, "[", "0", "m">>

\* Colorer.__getattr__(item)(text): the brush of a named color
Brush(bw, cfg, item, text) == _apply(bw, cfg, text, COLOR_MAP[item], <<>>, None)

\* the color code by_number hands to _apply
ByNumberColor(n) == n * 10

\* Colorer.by_number(number, text, bold=...)
by_number(bw, cfg, n, text, bold) ==
    _apply(bw, cfg, text, ByNumberColor(n), <<38, 5>>, bold)

\* ------------------------------------------------------- configuration

UIDefaults == [with_text |-> TRUE, with_trivial |-> FALSE, close_pars_early |-> TRUE,
               print_with_color |-> TRUE, color_legend |-> TRUE, dotted |-> FALSE,
               column_width |-> 100, indent_size |-> 4]

FilterDefaults == [excluded_types |-> None, only_types |-> None]

MarkingDefaults == [definition_nodes |-> None, usage_nodes |-> None,
                    undefined_usage_nodes |-> None]

TTYDefaults == [use_pager |-> FALSE]

DebugDefaults == [debug |-> FALSE, debug_only |-> FALSE]

\* the fields a dataclass's generated __init__ fills, with their defaults
ClassDefaults == [UIConfig |-> UIDefaults, FilterConfig |-> FilterDefaults,
                  MarkingConfig |-> MarkingDefaults, TTYConfig |-> TTYDefaults,
                  DebugConfig |-> DebugDefaults]

\* dict.__or__(a, b): the right operand wins
DictOr(a, b) ==
    [f \in DOMAIN a \cup DOMAIN b |-> IF f \in DOMAIN b THEN b[f] ELSE a[f]]

\* _CombinedConfig(): every field of the five groups at its default
CombinedDefaults ==
    DictOr(DictOr(DictOr(DictOr(UIDefaults, FilterDefaults), MarkingDefaults),
                  TTYDefaults), DebugDefaults)

Fields == DOMAIN CombinedDefaults

\* A fragment is a call cls(**kwargs).  c.__dict__ holds every field of cls:
\* the keyword arguments, and the class default for each field not given.
DictOf(c) ==
    [f \in DOMAIN ClassDefaults[c.cls] |->
        IF f \in DOMAIN c.kwargs THEN c.kwargs[f] ELSE ClassDefaults[c.cls][f]]

RECURSIVE Reduce(_, _)
\* reduce(dict.__or__, [c.__dict__ for c in configs], initial)
Reduce(configs, initial) ==
    IF configs = <<>> THEN initial
    ELSE Reduce(Tail(configs), DictOr(initial, DictOf(configs[1])))

\* the fields the fragments of one configure call set explicitly
ExplicitFields(configs) ==
    UNION {DOMAIN configs[i].kwargs : i \in 1..Len(configs)}

\* the value the latest of the fragments that set f explicitly gives it
LatestExplicit(configs, f) ==
    LET setters == {i \in 1..Len(configs) : f \in DOMAIN configs[i].kwargs}
        last    == CHOOSE i \in setters : \A j \in setters : j <= i
    IN  configs[last].kwargs[f]

\* ---------------------------------------------------------------- trees

T_module == <<"m", "o", "d", "u", "l", "e">>
T_call == <<"c", "a", "l", "l">>
T_identifier == <<"i", "d", "e", "n", "t", "i", "f", "i", "e", "r">>
T_argument_list == <<"a", "r", "g", "u", "m", "e", "n", "t", "_", "l", "i", "s", "t">>
T_lpar == <<"(">>
T_rpar == <<")">>
T_assignment == <<"a", "s", "s", "i", "g", "n", "m", "e", "n", "t">>
T_eq == <<"=">>
T_integer == <<"i", "n", "t", "e", "g", "e", "r">>
T_string == <<"s", "t", "r", "i", "n", "g">>
T_dquote == <<"\"">>
T_string_content == <<"s", "t", "r", "i", "n", "g", "_", "c", "o", "n", "t", "e", "n", "t">>
T_pass == <<"p", "a", "s", "s">>
F_function == <<"f", "u", "n", "c", "t", "i", "o", "n">>
F_arguments == <<"a", "r", "g", "u", "m", "e", "n", "t", "s">>
F_left == <<"l", "e", "f", "t">>
F_right == <<"r", "i", "g", "h", "t">>

\* a tree_sitter Node: children are node numbers, fields[i] is field_name_for_child(i)
Node(type, is_named, start_byte, end_byte, line, children, fields) ==
    [type |-> type, is_named |-> is_named, start_byte |-> start_byte,
     end_byte |-> end_byte, line |-> line, children |-> children, fields |-> fields]

Leaf(type, is_named, start_byte, end_byte, line) ==
    Node(type, is_named, start_byte, end_byte, line, <<>>, <<>>)

\* f(x)
Tree1 ==
    [code  |-> <<"f", "(", "x", ")">>,
     nodes |-> << Node(T_module, TRUE, 0, 4, 0, <<2>>, <<None>>),
                  Node(T_call, TRUE, 0, 4, 0, <<3, 4>>,
                       <<Some(F_function), Some(F_arguments)>>),
                  Leaf(T_identifier, TRUE, 0, 1, 0),
                  Node(T_argument_list, TRUE, 1, 4, 0, <<5, 6, 7>>, <<None, None, None>>),
                  Leaf(T_lpar, FALSE, 1, 2, 0),
                  Leaf(T_identifier, TRUE, 2, 3, 0),
                  Leaf(T_rpar, FALSE, 3, 4, 0) >>]

\* x=1 and, on the next line, y
Tree2 ==
    [code  |-> <<"x", "=", "1", "\n", "y">>,
     nodes |-> << Node(T_module, TRUE, 0, 5, 0, <<2, 6>>, <<None, None>>),
                  Node(T_assignment, TRUE, 0, 3, 0, <<3, 4, 5>>,
                       <<Some(F_left), None, Some(F_right)>>),
                  Leaf(T_identifier, TRUE, 0, 1, 0),
                  Leaf(T_eq, FALSE, 1, 2, 0),
                  Leaf(T_integer, TRUE, 2, 3, 0),
                  Leaf(T_identifier, TRUE, 4, 5, 1) >>]

\* "it's a long text"
Tree3 ==
    [code  |-> <<"\"", "i", "t", "'", "s", " ", "a", " ", "l", "o", "n", "g", " ",
                 "t", "e", "x", "t", "\"">>,
     nodes |-> << Node(T_string, TRUE, 0, 18, 0, <<2, 3, 4>>, <<None, None, None>>),
                  Leaf(T_dquote, FALSE, 0, 1, 0),
                  Leaf(T_string_content, TRUE, 1, 17, 0),
                  Leaf(T_dquote, FALSE, 17, 18, 0) >>]

\* pass, handed over as the token itself
Tree4 ==
    [code  |-> <<"p", "a", "s", "s">>,
     nodes |-> << Leaf(T_pass, FALSE, 0, 4, 0) >>]

Trees == <<Tree1, Tree2, Tree3, Tree4>>

NodesOf(t) == 1..Len(t.nodes)

RECURSIVE Descendants(_, _)
\* the nodes strictly below n
Descendants(t, n) ==
    LET cs == {t.nodes[n].children[i] : i \in 1..Len(t.nodes[n].children)}
    IN  cs \cup UNION {Descendants(t, c) : c \in cs}

\* the nodes strictly above n
Ancestors(t, n) == {a \in NodesOf(t) : n \in Descendants(t, a)}

\* ----------------------------------------------- filter and classification

\* PrettySitter._text: code[n.start_byte:n.end_byte], each newline as backslash n
_text(t, n) ==
    Replace(SubSeq(t.code, t.nodes[n].start_byte + 1, t.nodes[n].end_byte),
            "\n", <<"\\", "n">>)

_trivial(t, n) == t.nodes[n].type = _text(t, n)

_excluded(cfg, t, n) ==
    cfg.excluded_types # None /\ t.nodes[n].type \in Get(cfg.excluded_types)

RECURSIVE _included(_, _, _)
\* _included without its descent: the type of any node is looked up, children or not
Included_flat(cfg, t, n) ==
    cfg.only_types = None \/ t.nodes[n].type \in Get(cfg.only_types)

_included(cfg, t, n) ==
    IF cfg.only_types = None THEN TRUE
    ELSE IF Len(t.nodes[n].children) = 0
         THEN t.nodes[n].type \in Get(cfg.only_types)
         ELSE \E i \in 1..Len(t.nodes[n].children) :
                  _included(cfg, t, t.nodes[n].children[i])

_printworthy(cfg, t, n) ==
    ~ (\/ _excluded(cfg, t, n)
       \/ ~ _included(cfg, t, n)
       \/ (~ cfg.with_trivial /\ _trivial(t, n)))

_leaf(cfg, t, n) ==
    \/ Len(t.nodes[n].children) = 0
    \/ (~ cfg.with_trivial
        /\ \A i \in 1..Len(t.nodes[n].children) : _trivial(t, t.nodes[n].children[i]))

_is_definition(cfg, n) ==
    cfg.definition_nodes # None /\ n \in Get(cfg.definition_nodes)

_is_usage(cfg, n) ==
    cfg.usage_nodes # None /\ n \in Get(cfg.usage_nodes)

_is_undefined_usage(cfg, n) ==
    cfg.undefined_usage_nodes # None /\ n \in Get(cfg.undefined_usage_nodes)

\* ------------------------------------------------------------ renderer

NoError == "NoError"

\* What a render has done so far: the lines written to stdout, the attribute
\* pager_lines of the function _print, and the exception that ended it.
Acc(out, lines, exc) == [stdout |-> out, pager_lines |-> lines, raised |-> exc]

\* PrettySitter._column.  The dotted branch asks the class Colorer, not an
\* instance, for the brush gray: __getattr__ serves instances only, so the
\* lookup raises AttributeError before anything is built.
_column(cfg, text) ==
    IF cfg.dotted
    THEN [raised |-> "AttributeError", text |-> <<>>]
    ELSE [raised |-> NoError,
          text   |-> text \o Repeat(" ", cfg.column_width - Len(_uncolor(text)))]

\* re.match(rf'^(?:{color_regex.pattern})?DEBUG:', text)
IsDebugLine(text) ==
    LET j == MatchColor(text, 1)
    IN  \/ (j > 0 /\ StartsWith(SubSeq(text, j, Len(text)), <<"D", "E", "B", "U", "G", ":">>))
        \/ StartsWith(text, <<"D", "E", "B", "U", "G", ":">>)

\* _print without _uncolor: the line is written as it came, whatever print_with_color says
Print_raw(cfg, acc, text) ==
    IF acc.raised # NoError THEN acc
    ELSE IF cfg.debug_only /\ ~ IsDebugLine(text) THEN acc
    ELSE IF cfg.use_pager
         THEN IF acc.pager_lines = None
              THEN [acc EXCEPT !.raised = "AttributeError"]
              ELSE [acc EXCEPT !.pager_lines = Some(Append(Get(@), text))]
         ELSE [acc EXCEPT !.stdout = Append(@, text)]

\* PrettySitter._print.  self._print is a bound method: hasattr reads through
\* to the function's attributes, but the assignment self._print.pager_lines = []
\* is refused with AttributeError, so the attribute is never created.
_print(cfg, acc, text) ==
    IF acc.raised # NoError THEN acc
    ELSE IF cfg.debug_only /\ ~ IsDebugLine(text) THEN acc
    ELSE LET text_to_print == IF cfg.print_with_color THEN text ELSE _uncolor(text)
         IN  IF cfg.use_pager
             THEN IF acc.pager_lines = None
                  THEN [acc EXCEPT !.raised = "AttributeError"]
                  ELSE [acc EXCEPT !.pager_lines = Some(Append(Get(@), text_to_print))]
             ELSE [acc EXCEPT !.stdout = Append(@, text_to_print)]

\* the names of the brushes _obtain_first_color and _obtain_second_color pick
_obtain_first_color(cfg, t, n) ==
    IF _is_definition(cfg, n) THEN "red"
    ELSE IF _is_usage(cfg, n) THEN "green2"
    ELSE IF _is_undefined_usage(cfg, n) THEN "yellow"
    ELSE IF ~ _trivial(t, n) THEN "blue"
    ELSE "gray"

_obtain_second_color(cfg, t, n) ==
    IF _is_definition(cfg, n) THEN "red"
    ELSE IF _is_usage(cfg, n) THEN "green2"
    ELSE IF _is_undefined_usage(cfg, n) THEN "yellow"
    ELSE IF _leaf(cfg, t, n) THEN "cyan"
    ELSE "gray"

_indent(cfg, depth, text) == Repeat(" ", cfg.indent_size * depth) \o text

\* node_name of _print_node: the type, quoted for an anonymous node
NodeName(t, n) ==
    IF t.nodes[n].is_named THEN t.nodes[n].type
    ELSE <<"\"">> \o Replace(t.nodes[n].type, "\"", <<"\\", "\"">>) \o <<"\"">>

\* text_truncated of the trace lines
TextTruncated(t, n) ==
    LET text_quoted == Replace(_text(t, n), "'", <<"\\", "'">>)
    IN  IF Len(text_quoted) > 15
        THEN SubSeq(text_quoted, 1, 12) \o <<".", ".", ".">>
        ELSE text_quoted

\* the trace line of _print_node; mark is the four characters the source file
\* holds after "DEBUG: ", name is node_name, colored or not
DebugLine(cfg, bw, t, n, mark, word, name, depth, end) ==
    Brush(bw, cfg, "gray", <<"D", "E", "B", "U", "G", ":", " ">> \o mark \o <<" ">> \o word
                            \o <<" ", "n", "o", "d", "e", "_", "n", "a", "m", "e", "=">>)
    \o name
    \o Brush(bw, cfg, "gray", <<",", " ", "t", "e", "x", "t", "=", "'">>
                              \o TextTruncated(t, n) \o <<"'">>)
    \o Brush(bw, cfg, "gray", <<",", " ", "d", "e", "p", "t", "h", "=">> \o Str(depth)
                              \o <<",", " ", "e", "n", "d", "=", "'">>)
    \o end
    \o Brush(bw, cfg, "gray", <<"'">>)

\* first_part of _print_node, before any closing bracket is added
FirstPart(cfg, bw, t, n, attr, depth) ==
    LET attr_name_in_parent == IF attr # None THEN Get(attr) \o <<":", " ">> ELSE <<>>
        open_par            == by_number(bw, cfg, depth, <<"(">>, None)
        node_name_colored   == Brush(bw, cfg, _obtain_first_color(cfg, t, n), NodeName(t, n))
    IN  _indent(cfg, depth, attr_name_in_parent \o open_par \o node_name_colored)

\* second_part of _print_node
SecondPart(cfg, bw, t, n) ==
    Brush(bw, cfg, "gray", RightAlign3(t.nodes[n].line) \o <<":", " ">>)
    \o Brush(bw, cfg, _obtain_second_color(cfg, t, n), _text(t, n))

\* the header line of a node: first_part alone, or the column and second_part
PrintHeader(cfg, acc, first_part, second_part) ==
    IF acc.raised # NoError THEN acc
    ELSE IF ~ cfg.with_text THEN _print(cfg, acc, first_part)
    ELSE LET col == _column(cfg, first_part)
         IN  IF col.raised # NoError THEN [acc EXCEPT !.raised = col.raised]
             ELSE _print(cfg, acc, col.text \o second_part)

\* next(c for c in reversed(n.children) if self._printworthy(c, code)), or None
LastPrintworthyChild(cfg, t, n) ==
    LET cs == t.nodes[n].children
        ok == {i \in 1..Len(cs) : _printworthy(cfg, t, cs[i])}
    IN  IF ok = {} THEN None
        ELSE Some(cs[CHOOSE i \in ok : \A j \in ok : j <= i])

\* One call the traversal makes: kind "header" is a node's own line (text is
\* first_part, second is second_part), "close" a bare closing bracket,
\* "skipped" and "entered" the two trace lines.
PrintCall(n, kind, text, second) ==
    [node |-> n, kind |-> kind, text |-> text, second |-> second]

RECURSIVE PrintCalls(_, _, _, _, _, _, _)
RECURSIVE ChildrenCalls(_, _, _, _, _, _, _, _)

\* for i, child in enumerate(n.children): self._print_node(child, ...)
ChildrenCalls(cfg, bw, t, n, i, depth, end, last) ==
    IF i > Len(t.nodes[n].children) THEN <<>>
    ELSE PrintCalls(cfg, bw, t, t.nodes[n].children[i], t.nodes[n].fields[i], depth + 1,
                    IF cfg.close_pars_early /\ Some(t.nodes[n].children[i]) = last
                    THEN end ELSE <<>>)
         \o ChildrenCalls(cfg, bw, t, n, i + 1, depth, end, last)

\* The body of PrettySitter._print_node for node n: the calls of _print (and of
\* _column) it makes, in order.  Nothing in the traversal reads what a call
\* did, so the calls are the same whether or not one of them raises.
PrintCalls(cfg, bw, t, n, attr, depth, inherited) ==
    IF ~ _printworthy(cfg, t, n)
    THEN IF cfg.debug
         THEN <<PrintCall(n, "skipped",
                          DebugLine(cfg, bw, t, n, <<"U+00F0", "U+0178", "U+201D", "U+00B4">>,
                                    <<"s", "k", "i", "p", "p", "e", "d">>,
                                    NodeName(t, n), depth, inherited),
                          <<>>)>>
         ELSE <<>>
    ELSE
    LET node_name_colored == Brush(bw, cfg, _obtain_first_color(cfg, t, n), NodeName(t, n))
        entered == IF cfg.debug
                   THEN <<PrintCall(n, "entered",
                                    DebugLine(cfg, bw, t, n, <<"U+00F0", "U+0178", "U+0178", "U+00A2">>,
                                              <<"e", "n", "t", "e", "r", "e", "d">>,
                                              node_name_colored, depth, inherited),
                                    <<>>)>>
                   ELSE <<>>
        closed_par  == by_number(bw, cfg, depth, <<")">>, None)
        first_part  == FirstPart(cfg, bw, t, n, attr, depth)
        second_part == SecondPart(cfg, bw, t, n)
        end         == closed_par \o inherited
        last        == LastPrintworthyChild(cfg, t, n)
    IN  IF last # None
        THEN entered
             \o <<PrintCall(n, "header", first_part, second_part)>>
             \o ChildrenCalls(cfg, bw, t, n, 1, depth, end, last)
             \o (IF ~ cfg.close_pars_early
                 THEN <<PrintCall(n, "close",
                                  _indent(cfg, depth, by_number(bw, cfg, depth, <<")">>, None)),
                                  <<>>)>>
                 ELSE <<>>)
        ELSE entered \o <<PrintCall(n, "header", first_part \o end, second_part)>>

\* one call carried out: a header goes through _column when text is shown
Emit(cfg, acc, call) ==
    IF call.kind = "header"
    THEN PrintHeader(cfg, acc, call.text, call.second)
    ELSE _print(cfg, acc, call.text)

RECURSIVE EmitAll(_, _, _, _)
\* the calls from the i-th on carried out in order; an exception ends the render
EmitAll(cfg, acc, calls, i) ==
    IF i > Len(calls) \/ acc.raised # NoError THEN acc
    ELSE EmitAll(cfg, Emit(cfg, acc, calls[i]), calls, i + 1)

\* self._print_node(self._root, self._root.text)
_print_node(cfg, bw, t, acc) ==
    EmitAll(cfg, acc, PrintCalls(cfg, bw, t, 1, None, 0, <<>>), 1)

\* the legend of pprint, built inside with self._colorer.persist(bold=False)
Legend(cfg) ==
    LET bw == ConstWorthy(FALSE)
        legend ==
            (IF cfg.definition_nodes # None
             THEN <<Brush(bw, cfg, "red", <<"D", "e", "f", "i", "n", "i", "t", "i", "o", "n", "s">>)>>
             ELSE <<>>)
            \o (IF cfg.usage_nodes # None
                THEN <<Brush(bw, cfg, "green", <<"U", "s", "a", "g", "e", "s">>)>>
                ELSE <<>>)
            \o (IF cfg.undefined_usage_nodes # None
                THEN <<Brush(bw, cfg, "yellow", <<"U", "n", "d", "e", "f", "i", "n", "e", "d">>)>>
                ELSE <<>>)
            \o <<Brush(bw, cfg, "cyan", <<"L", "e", "a", "v", "e", "s">>)>>
    IN  <<"C", "o", "l", "o", "r", " ", "l", "e", "g", "e", "n", "d", ":", " ">>
        \o Join(<<",", " ">>, legend)

HasLegend(cfg) == cfg.print_with_color /\ cfg.color_legend

\* What one call of PrettySitter.pprint does, for the predicate bw the colorer
\* holds on entry and the attribute pager_lines found on entry.  The three
\* advisory warnings go to stderr and touch nothing else.  The persist block
\* around the legend is left normally, which puts bw back.
PprintResult(cfg, bw, t, lines) ==
    LET acc0 == Acc(IF HasLegend(cfg) THEN <<Legend(cfg)>> ELSE <<>>, lines, NoError)
        acc1 == _print_node(cfg, bw, t, acc0)
    IN  [stdout      |-> acc1.stdout,
         pager_lines |-> acc1.pager_lines,
         raised      |-> acc1.raised,
         \* subprocess.run(['less', '-RS'], input='\n'.join(pager_lines))
         paged       |-> IF acc1.raised = NoError /\ cfg.use_pager
                            /\ acc1.pager_lines # None
                         THEN Some(Join(<<"\n">>, Get(acc1.pager_lines)))
                         ELSE None]

\* ------------------------------------------------------ the operations

UI(kw) == [cls |-> "UIConfig", kwargs |-> kw]

Filter(kw) == [cls |-> "FilterConfig", kwargs |-> kw]

Marking(kw) == [cls |-> "MarkingConfig", kwargs |-> kw]

TTY(kw) == [cls |-> "TTYConfig", kwargs |-> kw]

Debug(kw) == [cls |-> "DebugConfig", kwargs |-> kw]

\* the argument lists configure is called with
ConfigureCalls ==
    << <<UI([dotted |-> TRUE])>>,
       <<UI([indent_size |-> 2])>>,
       <<UI([close_pars_early |-> FALSE])>>,
       <<UI([print_with_color |-> FALSE])>>,
       <<UI([with_text |-> FALSE])>>,
       <<UI([with_trivial |-> TRUE])>>,
       <<UI([column_width |-> 8])>>,
       <<UI([color_legend |-> FALSE])>>,
       <<UI([close_pars_early |-> FALSE, with_trivial |-> TRUE])>>,
       <<UI([print_with_color |-> FALSE, close_pars_early |-> FALSE, column_width |-> 8])>>,
       <<UI(<<>>)>>,
       <<Filter([only_types |-> Some({T_identifier})])>>,
       <<Filter([excluded_types |-> Some({T_call, T_integer})])>>,
       <<Filter([only_types |-> Some({T_lpar})])>>,
       <<Filter([only_types |-> Some({T_identifier, T_assignment}),
                 excluded_types |-> Some({T_argument_list})])>>,
       <<Filter(<<>>)>>,
       <<Marking([definition_nodes |-> Some({3}), usage_nodes |-> Some({6})])>>,
       <<TTY([use_pager |-> TRUE])>>,
       <<TTY(<<>>)>>,
       <<Debug([debug |-> TRUE])>>,
       <<Debug([debug |-> TRUE, debug_only |-> TRUE])>>,
       <<Debug([debug_only |-> TRUE])>>,
       <<UI([dotted |-> TRUE]), UI([indent_size |-> 2])>>,
       <<UI([with_text |-> FALSE]), Filter([only_types |-> Some({T_identifier})])>>,
       <<Debug([debug |-> TRUE]), UI([print_with_color |-> FALSE]), Debug(<<>>)>>
    >>

\* PrettySitter(root): _config is _CombinedConfig(), the colorer holds the bound
\* method _boldworthy.  PrettySitter(root, *configs) is this followed by
\* configure(*configs).
Init ==
    /\ root \in 1..Len(Trees)
    /\ _config = CombinedDefaults
    /\ _boldworthy = MethodWorthy
    /\ frames = <<>>
    /\ args = <<>>
    /\ op = "init"
    /\ number = 0
    /\ styled = <<>>
    /\ stdout = <<>>
    /\ paged = <<>>
    /\ raised = NoError
    /\ pager_lines = None

\* PrettySitter.configure(*configs)
Configure(configs) ==
    /\ _config' = Reduce(configs, _config)
    /\ args' = configs
    /\ op' = "configure"
    /\ stdout' = <<>>
    /\ paged' = <<>>
    /\ raised' = NoError
    /\ UNCHANGED <<root, _boldworthy, frames, number, styled, pager_lines>>

\* PrettySitter.pprint()
Pprint ==
    /\ Len(stdout) < MaxRenders
    /\ LET r == PprintResult(_config, _boldworthy, Trees[root], pager_lines)
       IN  /\ stdout' = Append(stdout, r.stdout)
           /\ paged' = Append(paged, r.paged)
           /\ raised' = r.raised
           /\ pager_lines' = r.pager_lines
    /\ args' = <<>>
    /\ op' = "pprint"
    /\ UNCHANGED <<root, _config, _boldworthy, frames, number, styled>>

Next ==
    \/ \E i \in 1..Len(ConfigureCalls) : Configure(ConfigureCalls[i])
    \/ Pprint

Spec == Init /\ [][Next]_vars

\* ------------------------------------------- the colorer used on its own

\* the texts handed to a brush
BrushTexts == {<<"(">>, <<"x">>}

\* Colorer(bold) for a bool, or Colorer(self._boldworthy) as PrettySitter builds
\* it, here with an allow-list that holds the opening bracket
InitColorer ==
    /\ root = 1
    /\ _config \in {CombinedDefaults,
                    DictOr(CombinedDefaults, [only_types |-> Some({T_lpar})])}
    /\ _boldworthy \in {ConstWorthy(TRUE), ConstWorthy(FALSE), MethodWorthy}
    /\ frames = <<>>
    /\ args = <<>>
    /\ op = "init"
    /\ number = 0
    /\ styled = <<>>
    /\ stdout = <<>>
    /\ paged = <<>>
    /\ raised = NoError
    /\ pager_lines = None

\* with colorer.persist(bold=bold): up to the yield
PersistEnter(bold) ==
    /\ Len(frames) < MaxNesting
    /\ frames' = Append(frames, _boldworthy)
    /\ _boldworthy' = ConstWorthy(bold)
    /\ op' = "persist_enter"
    /\ raised' = NoError
    /\ number' = 0
    /\ styled' = <<>>
    /\ UNCHANGED <<root, _config, args, stdout, paged, pager_lines>>

\* the body of the innermost block ends: the generator runs on after the yield
PersistExit ==
    /\ frames # <<>>
    /\ _boldworthy' = frames[Len(frames)]
    /\ frames' = SubSeq(frames, 1, Len(frames) - 1)
    /\ op' = "persist_exit"
    /\ raised' = NoError
    /\ number' = 0
    /\ styled' = <<>>
    /\ UNCHANGED <<root, _config, args, stdout, paged, pager_lines>>

\* The body of the innermost block asks for a color COLOR_MAP does not hold and
\* __getattr__ raises NotImplementedError.  The error is thrown into each
\* generator at its yield, which does not catch it: the k innermost blocks are
\* left (the error is handled around the k-th) and no assignment after a yield runs.
PersistRaise(k) ==
    /\ k \in 1..Len(frames)
    /\ frames' = SubSeq(frames, 1, Len(frames) - k)
    /\ raised' = "NotImplementedError"
    /\ op' = "persist_raise"
    /\ number' = 0
    /\ styled' = <<>>
    /\ UNCHANGED <<root, _config, _boldworthy, args, stdout, paged, pager_lines>>

\* colorer.<item>(text)
CallBrush(item, text) ==
    /\ styled' = Brush(_boldworthy, _config, item, text)
    /\ op' = "brush"
    /\ raised' = NoError
    /\ number' = 0
    /\ UNCHANGED <<root, _config, _boldworthy, frames, args, stdout, paged, pager_lines>>

\* colorer.by_number(n, text, bold=bold)
CallByNumber(n, text, bold) ==
    /\ styled' = by_number(_boldworthy, _config, n, text, bold)
    /\ number' = n
    /\ op' = "by_number"
    /\ raised' = NoError
    /\ UNCHANGED <<root, _config, _boldworthy, frames, args, stdout, paged, pager_lines>>

NextColorer ==
    \/ \E bold \in BOOLEAN : PersistEnter(bold)
    \/ PersistExit
    \/ \E k \in 1..MaxNesting : PersistRaise(k)
    \/ \E item \in DOMAIN COLOR_MAP, text \in BrushTexts : CallBrush(item, text)
    \/ \E n \in 0..MaxNumber, text \in BrushTexts, bold \in {None, Some(TRUE), Some(FALSE)} :
           CallByNumber(n, text, bold)

SpecColorer == InitColorer /\ [][NextColorer]_vars

\* ------------------------------------------------------------ the claims

\* the tree being rendered
T == Trees[root]

\* the lines the latest pprint call wrote through _print: its output without
\* the legend line, which pprint writes with print itself
NodeLines ==
    LET out == stdout[Len(stdout)]
    IN  IF HasLegend(_config) /\ out # <<>> THEN Tail(out) ELSE out

\* the calls of _print the traversal makes in the present state
Calls == PrintCalls(_config, _boldworthy, T, 1, None, 0, <<>>)

Map(F(_), seq) == [i \in 1..Len(seq) |-> F(seq[i])]

Depth(t, n) == Cardinality(Ancestors(t, n))

\* the field name of n in its parent
AttrOf(t, n) ==
    IF n = 1 THEN None
    ELSE LET p == CHOOSE a \in NodesOf(t) :
                      \E i \in 1..Len(t.nodes[a].children) : t.nodes[a].children[i] = n
             i == CHOOSE i \in 1..Len(t.nodes[p].children) : t.nodes[p].children[i] = n
         IN  t.nodes[p].fields[i]

RECURSIVE Preorder(_, _)
RECURSIVE PreorderOfChildren(_, _, _)
PreorderOfChildren(t, n, i) ==
    IF i > Len(t.nodes[n].children) THEN <<>>
    ELSE Preorder(t, t.nodes[n].children[i]) \o PreorderOfChildren(t, n, i + 1)

\* the nodes of the subtree of n, depth first, children in their order
Preorder(t, n) == <<n>> \o PreorderOfChildren(t, n, 1)

\* printworthy, and so is every ancestor
Visible(cfg, t) ==
    {n \in NodesOf(t) : /\ _printworthy(cfg, t, n)
                        /\ \A a \in Ancestors(t, n) : _printworthy(cfg, t, a)}

VisiblePreorder(cfg, t) == SelectSeq(Preorder(t, 1), LAMBDA n : n \in Visible(cfg, t))

Childless(t, n) == Len(t.nodes[n].children) = 0

\* n, or a node below it, is a childless node whose type the allow-list holds
MatchesAllowList(cfg, t, n) ==
    IF Childless(t, n) THEN t.nodes[n].type \in Get(cfg.only_types)
    ELSE \E d \in Descendants(t, n) :
             Childless(t, d) /\ t.nodes[d].type \in Get(cfg.only_types)

\* C1, as claimed: configure overlays only the fields a fragment set
\* explicitly.  After a configure call every field some fragment of the call
\* set explicitly has the value the latest such fragment gave it, and every
\* other field keeps the value it had before the call.
C1_OverlayOnlyExplicit ==
    [][op' = "configure" =>
          \A f \in Fields :
              _config'[f] = IF f \in ExplicitFields(args')
                            THEN LatestExplicit(args', f)
                            ELSE _config[f]]_vars

\* C2, as claimed: with an allow-list configured, a childless node is
\* printworthy iff its type is listed, and a node with children iff a
\* descendant matches the list.
C2_PrintworthyIffListed ==
    _config.only_types # None =>
        \A n \in NodesOf(T) : _printworthy(_config, T, n) <=> MatchesAllowList(_config, T, n)

\* C2, amended: with an allow-list configured, a node is printworthy iff it
\* matches the list as above (a childless node by its own type, a node with
\* children by a childless descendant), its type is not excluded, and it is
\* not a trivial node hidden by with_trivial being off.
C2_PrintworthyAmended ==
    _config.only_types # None =>
        \A n \in NodesOf(T) :
            _printworthy(_config, T, n)
                <=> /\ MatchesAllowList(_config, T, n)
                    /\ ~ (/\ _config.excluded_types # None
                          /\ T.nodes[n].type \in Get(_config.excluded_types))
                    /\ (_config.with_trivial \/ T.nodes[n].type # _text(T, n))

\* C2's case: an allow-list under which a node with children is printworthy
\* through a listed descendant two levels down, next to a childless node that
\* is not listed
C2_Witness ==
    /\ _config.only_types # None
    /\ \E n \in NodesOf(T) :
           /\ ~ Childless(T, n)
           /\ _printworthy(_config, T, n)
           /\ \A i \in 1..Len(T.nodes[n].children) :
                  ~ Childless(T, T.nodes[n].children[i])
    /\ \E n \in NodesOf(T) : Childless(T, n) /\ ~ _printworthy(_config, T, n)

\* the input less is given for these lines: none when no line was buffered
PagerInputOf(lines) == IF lines = <<>> THEN None ELSE Some(Join(<<"\n">>, lines))

\* C3, as claimed: two renders in succession give the same output, and in
\* pager mode what a render hands to the pager is exactly the lines that
\* render produced (the lines the same render writes in immediate mode).
C3_RenderTwiceIdentical ==
    Len(stdout) >= 2 =>
        LET k == Len(stdout)
            immediate == PprintResult(DictOr(_config, [use_pager |-> FALSE]),
                                      _boldworthy, T, None)
            produced  == IF HasLegend(_config) THEN Tail(immediate.stdout)
                         ELSE immediate.stdout
        IN  /\ stdout[k] = stdout[k - 1]
            /\ paged[k] = paged[k - 1]
            /\ _config.use_pager => paged[k] = PagerInputOf(produced)

\* C4, as claimed: whenever persist blocks are left, normally or by an error,
\* the emphasis predicate is again the one in effect when the outermost of the
\* blocks left was entered.
C4_PersistRestores ==
    [][Len(frames') < Len(frames) => _boldworthy' = frames[Len(frames') + 1]]_vars

\* what the latest pprint call would have done with color disabled
ColorlessRender ==
    PprintResult(DictOr(_config, [print_with_color |-> FALSE]), _boldworthy, T, pager_lines)

\* C5, as claimed: the complete output of a render with color, its style
\* sequences removed, is the complete output of the same render without color.
C5_RoundTrip ==
    (op = "pprint" /\ _config.print_with_color) =>
        Map(_uncolor, stdout[Len(stdout)]) = ColorlessRender.stdout

\* C5, amended: the lines a render with color writes for the nodes (its
\* output without the "Color legend:" line, which only a render with color
\* prints), their style sequences removed, are exactly the output of the same
\* render without color; the two renders end alike.
C5_RoundTripNodeLines ==
    (op = "pprint" /\ _config.print_with_color) =>
        /\ Map(_uncolor, NodeLines) = ColorlessRender.stdout
        /\ raised = ColorlessRender.raised

\* C5's case: a render with color that wrote the legend and styled node lines
C5_Witness ==
    /\ op = "pprint"
    /\ HasLegend(_config)
    /\ Len(NodeLines) >= 3
    /\ \E i \in 1..Len(NodeLines) : _uncolor(NodeLines[i]) # NodeLines[i]

\* every call of the traversal wrote its line, and the line starts with the
\* call's text (style sequences aside)
EveryCallWritten ==
    /\ raised = NoError
    /\ Len(NodeLines) = Len(Calls)
    /\ \A i \in 1..Len(Calls) :
           StartsWith(_uncolor(NodeLines[i]), _uncolor(Calls[i].text))

\* the width the column is claimed to have
ClaimedWidth(cfg) == IF cfg.dotted THEN cfg.column_width + 2 ELSE cfg.column_width

\* the header segment of the i-th line: what precedes second_part
HeaderSegment(i) ==
    LET line == _uncolor(NodeLines[i])
    IN  SubSeq(line, 1, Len(line) - Len(_uncolor(Calls[i].second)))

ColumnsAsClaimed ==
    \A i \in 1..Len(Calls) :
        Calls[i].kind = "header" =>
            LET unpadded == _uncolor(Calls[i].text)
            IN  /\ StartsWith(HeaderSegment(i), unpadded)
                /\ Len(HeaderSegment(i)) = IF Len(unpadded) > _config.column_width
                                           THEN Len(unpadded)
                                           ELSE ClaimedWidth(_config)

\* C6, as claimed: in immediate mode, with text shown, every node's line is
\* written and its header segment has the width column_width (column_width + 2
\* in dotted mode), or is the unpadded header when that is longer.
C6_ColumnInvariant ==
    (op = "pprint" /\ _config.with_text /\ ~ _config.use_pager /\ ~ _config.debug_only
       /\ Calls # <<>>) =>
        EveryCallWritten /\ ColumnsAsClaimed

\* C6 for the renders that end without an exception
C6_WhenNotRaised ==
    (op = "pprint" /\ _config.with_text /\ ~ _config.debug_only /\ raised = NoError
       /\ NodeLines # <<>>) =>
        EveryCallWritten /\ ColumnsAsClaimed

\* the line _print writes for text
Printed(cfg, text) == IF cfg.print_with_color THEN text ELSE _uncolor(text)

IndexOf(kind, n) == {i \in 1..Len(Calls) : Calls[i].node = n /\ Calls[i].kind = kind}

HasPrintworthyChild(cfg, t, n) ==
    \E i \in 1..Len(t.nodes[n].children) : _printworthy(cfg, t, t.nodes[n].children[i])

ClosingLinesAsClaimed ==
    \A n \in Visible(_config, T) :
        LET d == Depth(T, n)
            closed_par == by_number(_boldworthy, _config, d, <<")">>, None)
        IN  IF HasPrintworthyChild(_config, T, n)
            THEN /\ Cardinality(IndexOf("close", n)) = 1
                 /\ \A i \in IndexOf("close", n) :
                        /\ NodeLines[i] = Printed(_config, Repeat(" ", _config.indent_size * d)
                                                           \o closed_par)
                        /\ \A j \in 1..Len(Calls) :
                               /\ Calls[j].node \in Descendants(T, n) => j < i
                               /\ (/\ Calls[j].node \notin Descendants(T, n) \cup {n}
                                   /\ \E h \in IndexOf("header", n) : h < j) => i < j
            ELSE /\ IndexOf("close", n) = {}
                 /\ \A h \in IndexOf("header", n) :
                        StartsWith(_uncolor(NodeLines[h]),
                                   _uncolor(FirstPart(_config, _boldworthy, T, n,
                                                      AttrOf(T, n), d) \o closed_par))

\* C7, as claimed: with close_pars_early off, every printed node with a
\* printworthy child has exactly one line of its own that holds only its
\* closing bracket at the node's indentation, after every line of its
\* descendants and before every line of a later node; a printed node without
\* a printworthy child has no such line and closes on its header line.
\* (A node is printed when output is not restricted to trace lines.)
C7_ClosingLines ==
    (op = "pprint" /\ ~ _config.close_pars_early /\ ~ _config.debug_only) =>
        EveryCallWritten /\ ClosingLinesAsClaimed

\* C7 for the renders that end without an exception
C7_WhenNotRaised ==
    (op = "pprint" /\ ~ _config.close_pars_early /\ ~ _config.debug_only
       /\ raised = NoError) =>
        EveryCallWritten /\ ClosingLinesAsClaimed

OneLinePerVisibleNode ==
    LET vis == VisiblePreorder(_config, T)
    IN  /\ Len(NodeLines) = Len(vis)
        /\ \A i \in 1..Len(vis) :
               StartsWith(_uncolor(NodeLines[i]),
                          _uncolor(FirstPart(_config, _boldworthy, T, vis[i],
                                             AttrOf(T, vis[i]), Depth(T, vis[i]))))

\* C8, as claimed: with tracing off and close_pars_early on, the render writes
\* exactly one line per node that is printworthy along with all its
\* ancestors, in depth-first pre-order, and no other line.
C8_OneLinePerNode ==
    (op = "pprint" /\ ~ _config.debug /\ ~ _config.debug_only /\ _config.close_pars_early) =>
        raised = NoError /\ OneLinePerVisibleNode

\* C8 for the renders that end without an exception
C8_WhenNotRaised ==
    (op = "pprint" /\ ~ _config.debug /\ ~ _config.debug_only /\ _config.close_pars_early
       /\ raised = NoError /\ ~ _config.use_pager) =>
        OneLinePerVisibleNode

\* the size of the palette the modifiers 38;5 select
PaletteSize == 256

\* C9, as claimed: the color by_number picks for a depth is an entry of the
\* palette, and a depth one palette size further on gets the same color.
C9_DepthModuloPalette ==
    op = "by_number" =>
        /\ ByNumberColor(number) \in 0..(PaletteSize - 1)
        /\ \A text \in BrushTexts :
               by_number(_boldworthy, _config, number + PaletteSize, text, None)
                   = by_number(_boldworthy, _config, number, text, None)

\* the bracket by_number styles for depth d stands at position i of text
BracketAt(text, i, ch, d) ==
    /\ text[i] = ch
    /\ \E bold \in BOOLEAN :
           LET whole == by_number(_boldworthy, _config, d, <<ch>>, Some(bold))
               from  == i - (Len(whole) - 5)
           IN  from >= 1 /\ i + 4 <= Len(text) /\ SubSeq(text, from, i + 4) = whole

\* the brackets of one text in order: d + 1 for an opening bracket of depth d,
\* -(d + 1) for a closing one
BracketsOf(text) ==
    LET at(i) == IF \E d \in 0..Len(T.nodes) : BracketAt(text, i, "(", d)
                 THEN (CHOOSE d \in 0..Len(T.nodes) : BracketAt(text, i, "(", d)) + 1
                 ELSE IF \E d \in 0..Len(T.nodes) : BracketAt(text, i, ")", d)
                 THEN 0 - ((CHOOSE d \in 0..Len(T.nodes) : BracketAt(text, i, ")", d)) + 1)
                 ELSE 0
        all   == [i \in 1..Len(text) |-> at(i)]
    IN  SelectSeq(all, LAMBDA b : b # 0)

RECURSIVE BracketsFrom(_)
\* the brackets of the calls from the i-th on
BracketsFrom(i) ==
    IF i > Len(Calls) THEN <<>> ELSE BracketsOf(Calls[i].text) \o BracketsFrom(i + 1)

RECURSIVE WellNested(_, _, _)
\* every closing bracket closes the latest bracket still open, of its depth
WellNested(bs, i, open) ==
    IF i > Len(bs) THEN open = <<>>
    ELSE IF bs[i] > 0 THEN WellNested(bs, i + 1, Append(open, bs[i]))
    ELSE /\ open # <<>>
         /\ open[Len(open)] = 0 - bs[i]
         /\ WellNested(bs, i + 1, SubSeq(open, 1, Len(open) - 1))

BracketsBalanced ==
    LET bs == BracketsFrom(1)
    IN  /\ WellNested(bs, 1, <<>>)
        /\ \A d \in 0..Len(T.nodes) :
               Cardinality({i \in 1..Len(bs) : bs[i] = d + 1})
                   = Cardinality({n \in Visible(_config, T) : Depth(T, n) = d})

\* C10, as claimed: with tracing off, every line of the render is written,
\* each printed node contributes one opening and one closing bracket, and over
\* the lines in order the brackets nest: a closing bracket closes the latest
\* open bracket, which is of its own depth, and none is left open at the end.
C10_BracketBalance ==
    (op = "pprint" /\ ~ _config.debug /\ ~ _config.debug_only) =>
        EveryCallWritten /\ BracketsBalanced

\* C10 for the renders that end without an exception
C10_WhenNotRaised ==
    (op = "pprint" /\ ~ _config.debug /\ ~ _config.debug_only /\ raised = NoError
       /\ ~ _config.use_pager) =>
        EveryCallWritten /\ BracketsBalanced
====
